---- MODULE Spec2Model ----
(***************************************************************************)
(* TokenService of gem-token-api: the token list operation, the token      *)
(* detail operation and the commentary generator, over untyped JSON        *)
(* payloads.  JavaScript values are tagged records; a raised TypeError is   *)
(* the pseudo-value Thrown, which every operator propagates.               *)
(***************************************************************************)
EXTENDS Integers, Sequences, FiniteSets, TLC

\* ------------------------------------------------------------------------
\* JavaScript values
\* ------------------------------------------------------------------------
Undefined == [t |-> "undefined"]
Null == [t |-> "null"]
Thrown == [t |-> "TypeError"]
Num(n) == [t |-> "number", n |-> n]
Str(s) == [t |-> "string", s |-> s]
Bool(b) == [t |-> "boolean", b |-> b]
Arr(a) == [t |-> "array", a |-> a]
Obj(f) == [t |-> "object", f |-> f]

EmptyObj == Obj([k \in {} |-> Undefined])
EmptyArr == Arr(<<>>)
EmptyStr == Str(<<>>)

IsNullish(v) == v.t \in {"undefined", "null"}

\* !v
Falsy(v) ==
  \/ IsNullish(v)
  \/ (v.t = "number" /\ v.n = 0)
  \/ (v.t = "string" /\ v.s = <<>>)
  \/ (v.t = "boolean" /\ ~v.b)

\* v.k
Get(v, k) ==
  IF v = Thrown \/ IsNullish(v) THEN Thrown
  ELSE IF v.t = "object" /\ k \in DOMAIN v.f THEN v.f[k]
  ELSE Undefined

\* v?.k
OptGet(v, k) ==
  IF v = Thrown THEN Thrown
  ELSE IF IsNullish(v) THEN Undefined
  ELSE Get(v, k)

\* v[i], i counted from 0
Index(v, i) ==
  IF v = Thrown \/ IsNullish(v) THEN Thrown
  ELSE IF v.t = "array" THEN (IF i + 1 \in DOMAIN v.a THEN v.a[i + 1] ELSE Undefined)
  ELSE IF v.t = "string" THEN (IF i + 1 \in DOMAIN v.s THEN Str(<<v.s[i + 1]>>) ELSE Undefined)
  ELSE IF v.t = "object" /\ i = 0 THEN Get(v, "0")
  ELSE Undefined

\* v || d
Or(v, d) ==
  IF v = Thrown THEN Thrown
  ELSE IF Falsy(v) THEN d
  ELSE v

\* an object literal: any field whose evaluation raised makes the literal raise
MkObj(f) ==
  IF \E k \in DOMAIN f : f[k] = Thrown THEN Thrown ELSE Obj(f)

\* an array literal: any element whose evaluation raised makes the whole raise
MkObjSeq(a) ==
  IF \E i \in DOMAIN a : a[i] = Thrown THEN Thrown ELSE Arr(a)

\* String(v) inside a template literal raises when v cannot be converted to a
\* primitive: an object with an own, non-callable toString (every value of a
\* JSON payload is non-callable), or an array holding such an element
RECURSIVE ToStringThrows(_)
ToStringThrows(v) ==
  IF v = Thrown THEN TRUE
  ELSE IF v.t = "object" THEN "toString" \in DOMAIN v.f
  ELSE IF v.t = "array" THEN
    \E i \in DOMAIN v.a : ~IsNullish(v.a[i]) /\ ToStringThrows(v.a[i])
  ELSE FALSE

\* ------------------------------------------------------------------------
\* Strings
\* ------------------------------------------------------------------------
LowerCase == <<"a", "b", "c", "d", "e", "f", "g", "h", "i", "j", "k", "l", "m", "n", "o", "p", "q", "r", "s", "t", "u", "v", "w", "x", "y", "z">>
UpperCase == <<"A", "B", "C", "D", "E", "F", "G", "H", "I", "J", "K", "L", "M", "N", "O", "P", "Q", "R", "S", "T", "U", "V", "W", "X", "Y", "Z">>

UpperChar(c) ==
  IF \E i \in DOMAIN LowerCase : LowerCase[i] = c
  THEN UpperCase[CHOOSE i \in DOMAIN LowerCase : LowerCase[i] = c]
  ELSE c

toUpperCase_identity(s) == s

\* String.prototype.toUpperCase on the characters of s
toUpperCase(s) == [i \in DOMAIN s |-> UpperChar(s[i])]

NA == Str(<<"N", "/", "A">>)
AI_UNAVAILABLE == Str(<<"A", "I", " ", "a", "n", "a", "l", "y", "s", "i", "s", " ", "u", "n", "a", "v", "a", "i", "l", "a", "b", "l", "e", ".">>)
NO_INSIGHT == Str(<<"N", "o", " ", "A", "I", " ", "i", "n", "s", "i", "g", "h", "t", " ", "a", "v", "a", "i", "l", "a", "b", "l", "e", ".">>)

\* token.symbol?.toUpperCase() || 'N/A'
symbolOf(token) ==
  LET s == Get(token, "symbol") IN
  IF s = Thrown THEN Thrown
  ELSE IF IsNullish(s) THEN NA
  ELSE IF s.t = "string" THEN Or(Str(toUpperCase(s.s)), NA)
  ELSE Thrown

\* ------------------------------------------------------------------------
\* Slicing
\* ------------------------------------------------------------------------
SliceCount == 24

Max(a, b) == IF a >= b THEN a ELSE b
Min(a, b) == IF a <= b THEN a ELSE b

slice_fromStart(s, start) == SubSeq(s, 1, Min(Len(s), 0 - start))

\* Array.prototype.slice(start) / String.prototype.slice(start)
slice(s, start) ==
  LET k == IF start < 0 THEN Max(Len(s) + start, 0) ELSE Min(start, Len(s))
  IN SubSeq(s, k + 1, Len(s))

\* token.market_data?.sparkline_7d?.price?.slice(-24) || []
chartDataOf(token) ==
  LET p == OptGet(OptGet(Get(token, "market_data"), "sparkline_7d"), "price") IN
  IF p = Thrown THEN Thrown
  ELSE IF IsNullish(p) THEN EmptyArr
  ELSE IF p.t = "array" THEN Or(Arr(slice(p.a, 0 - SliceCount)), EmptyArr)
  ELSE IF p.t = "string" THEN Or(Str(slice(p.s, 0 - SliceCount)), EmptyArr)
  ELSE Thrown

\* ------------------------------------------------------------------------
\* Normalisation
\* ------------------------------------------------------------------------
orZero_none(v) == v

\* v || 0
orZero(v) == Or(v, Num(0))

\* v || null
orNull(v) == Or(v, Null)

\* v || ''
orEmpty(v) == Or(v, EmptyStr)

\* v || 'N/A'
orNA(v) == Or(v, NA)

ZeroFields == {"current_price", "market_cap", "total_volume", "high_24h", "low_24h",
               "price_change_24h", "price_change_percentage_24h", "circulating_supply",
               "total_supply", "ath", "ath_change_percentage", "atl", "atl_change_percentage"}
NullFields == {"market_cap_rank", "max_supply"}
SummaryFields == {"id", "name", "symbol", "image", "last_updated"} \cup ZeroFields \cup NullFields

formatAiAgentToken(token) ==
  MkObj([k \in SummaryFields |->
    IF k \in {"id", "name"} THEN Get(token, k)
    ELSE IF k = "symbol" THEN symbolOf(token)
    ELSE IF k = "image" THEN orEmpty(Get(token, k))
    ELSE IF k \in ZeroFields THEN orZero(Get(token, k))
    ELSE IF k \in NullFields THEN orNull(Get(token, k))
    ELSE orNA(Get(token, k))])

\* token.market_data?.k
Market(token, k) == OptGet(Get(token, "market_data"), k)
\* token.market_data?.k?.usd
MarketUsd(token, k) == OptGet(Market(token, k), "usd")

UsdFields == {"current_price", "market_cap", "total_volume", "ath", "atl"}
MarketZeroFields == {"price_change_24h", "price_change_percentage_24h", "circulating_supply",
                     "total_supply", "ath_change_percentage", "atl_change_percentage"}
MarketDateFields == {"ath_date", "atl_date"}
DetailFields == {"id", "name", "symbol", "image", "market_cap_rank", "max_supply",
                 "last_updated", "chart_data"}
                \cup UsdFields \cup MarketZeroFields \cup MarketDateFields

imageOf(token) ==
  MkObj([k \in {"thumb", "small", "large"} |-> orEmpty(OptGet(Get(token, "image"), k))])

formatTokenDetails(token) ==
  MkObj([k \in DetailFields |->
    IF k \in {"id", "name"} THEN Get(token, k)
    ELSE IF k = "symbol" THEN symbolOf(token)
    ELSE IF k = "image" THEN imageOf(token)
    ELSE IF k = "market_cap_rank" THEN orNull(Get(token, k))
    ELSE IF k \in UsdFields THEN orZero(MarketUsd(token, k))
    ELSE IF k \in MarketZeroFields THEN orZero(Market(token, k))
    ELSE IF k = "max_supply" THEN orNull(Market(token, k))
    ELSE IF k \in MarketDateFields THEN orNA(Market(token, k))
    ELSE IF k = "last_updated" THEN orNA(Get(token, k))
    ELSE chartDataOf(token)])

\* ------------------------------------------------------------------------
\* Token list: fetchAiAgentTokens
\* ------------------------------------------------------------------------
RECURSIVE MapSeq(_)
MapSeq(a) ==
  IF a = <<>> THEN <<>> ELSE <<formatAiAgentToken(Head(a))>> \o MapSeq(Tail(a))

arrayMap_reversed(d) ==
  IF d = Thrown \/ IsNullish(d) THEN Thrown
  ELSE IF d.t = "array" THEN
    MkObjSeq([i \in DOMAIN d.a |-> formatAiAgentToken(d.a[Len(d.a) + 1 - i])])
  ELSE Thrown

\* response.data.map(this.formatAiAgentToken)
arrayMap(d) ==
  IF d = Thrown \/ IsNullish(d) THEN Thrown
  ELSE IF d.t = "array" THEN MkObjSeq(MapSeq(d.a))
  ELSE Thrown

fetchAiAgentTokens_nocatch(ok, d) ==
  IF ~ok THEN EmptyArr ELSE arrayMap(d)

\* ok: the listing call resolved, with body d
fetchAiAgentTokens(ok, d) ==
  IF ~ok THEN EmptyArr
  ELSE LET r == arrayMap(d) IN IF r = Thrown THEN EmptyArr ELSE r

\* ------------------------------------------------------------------------
\* Token detail: fetchTokenDetails, getAiAnalysis, getTokenDetails
\* ------------------------------------------------------------------------
\* ok: the detail call resolved, with body d
fetchTokenDetails(ok, d) ==
  IF ~ok THEN Null
  ELSE LET r == formatTokenDetails(d) IN IF r = Thrown THEN Null ELSE r

tokenMissing_never(token) == FALSE

\* if (!token) return null
tokenMissing(token) == Falsy(token)

\* fields of the record interpolated into the user message
PromptFields == {"name", "symbol", "current_price", "market_cap", "market_cap_rank",
                 "total_volume", "high_24h", "low_24h", "price_change_24h",
                 "price_change_percentage_24h", "ath", "ath_change_percentage", "atl",
                 "atl_change_percentage", "circulating_supply", "total_supply"}
PromptJsonFields == {"chart_data"}

\* building the messages raises before the completion call is sent
PromptThrows(token) == \E k \in PromptFields \cup PromptJsonFields : 
  IF k \in PromptFields THEN ToStringThrows(Get(token, k)) ELSE Get(token, k) = Thrown

\* the catch handler's log line interpolates token.name
CatchLogThrows(token) == ToStringThrows(Get(token, "name"))

\* response.choices[0].message.content
readContent(response) == Get(Get(Index(Get(response, "choices"), 0), "message"), "content")

\* value of getAiAnalysis once the completion call has settled
\* (the prompt was built, so the catch handler's log line cannot raise)
analysisOf(ok, response) ==
  IF ~ok THEN AI_UNAVAILABLE
  ELSE LET c == readContent(response) IN IF c = Thrown THEN AI_UNAVAILABLE ELSE c

aiInsight_raw(aiAnalysis) == aiAnalysis

\* aiAnalysis || 'No AI insight available.'
aiInsight(aiAnalysis) == Or(aiAnalysis, NO_INSIGHT)

\* { ...token, ai_insight: ... }
withInsight(token, aiAnalysis) ==
  LET f == IF token.t = "object" THEN token.f ELSE EmptyObj.f IN
  Obj([k \in DOMAIN f \cup {"ai_insight"} |->
        IF k = "ai_insight" THEN aiInsight(aiAnalysis) ELSE f[k]])

\* ------------------------------------------------------------------------
\* Upstream payloads
\* ------------------------------------------------------------------------
MaxPoints == 26
MaxList == 2

RECURSIVE SetPath(_, _, _)
\* o with the value at path p replaced by v (intermediate objects are created)
SetPath(o, p, v) ==
  IF p = <<>> THEN v
  ELSE LET k == Head(p)
           f == IF o.t = "object" THEN o.f ELSE EmptyObj.f
           sub == IF k \in DOMAIN f THEN f[k] ELSE EmptyObj
       IN Obj([x \in DOMAIN f \cup {k} |-> IF x = k THEN SetPath(sub, Tail(p), v) ELSE f[x]])

RECURSIVE DelPath(_, _)
\* o without the key at path p
DelPath(o, p) ==
  IF o.t # "object" \/ p = <<>> \/ Head(p) \notin DOMAIN o.f THEN o
  ELSE IF Len(p) = 1 THEN Obj([x \in DOMAIN o.f \ {Head(p)} |-> o.f[x]])
  ELSE Obj([x \in DOMAIN o.f |-> IF x = Head(p) THEN DelPath(o.f[x], Tail(p)) ELSE o.f[x]])

S_btc == Str(<<"b", "t", "c">>)
S_Eth == Str(<<"E", "t", "h", "2">>)
S_Bitcoin == Str(<<"B", "i", "t", "c", "o", "i", "n">>)
S_date == Str(<<"2", "0", "2", "4">>)
S_url == Str(<<"u", "r", "l">>)
\* an object that cannot be converted to a primitive: {"toString": null}
BadObj == Obj([k \in {"toString"} |-> Null])

Probes == {Null, Num(0), Num(7), EmptyStr, S_Eth, Bool(FALSE), EmptyObj, BadObj}

Points(n) == Arr([i \in 1..n |-> Num(100 + i)])
Sparklines == {Points(n) : n \in 0..MaxPoints}

Usd(n) == Obj([k \in {"usd"} |-> Num(n)])

FullMarketData == Obj([k \in UsdFields \cup {"high_24h", "low_24h"} \cup MarketZeroFields
                             \cup MarketDateFields \cup {"max_supply", "sparkline_7d"} |->
  IF k \in UsdFields \cup {"high_24h", "low_24h"} THEN Usd(42)
  ELSE IF k \in MarketZeroFields THEN Num(0 - 3)
  ELSE IF k \in MarketDateFields THEN S_date
  ELSE IF k = "max_supply" THEN Num(21)
  ELSE Obj([j \in {"price"} |-> Points(3)])])

FullDetail == Obj([k \in {"id", "name", "symbol", "image", "market_cap_rank", "market_data",
                          "last_updated"} |->
  IF k = "id" THEN S_btc
  ELSE IF k = "name" THEN S_Bitcoin
  ELSE IF k = "symbol" THEN S_btc
  ELSE IF k = "image" THEN Obj([j \in {"thumb", "small", "large"} |-> S_url])
  ELSE IF k = "market_cap_rank" THEN Num(1)
  ELSE IF k = "market_data" THEN FullMarketData
  ELSE S_date])

DetailPaths ==
  {<<k>> : k \in {"id", "name", "symbol", "image", "market_cap_rank", "market_data", "last_updated"}}
  \cup {<<"image", k>> : k \in {"thumb", "small", "large"}}
  \cup {<<"market_data", k>> : k \in UsdFields \cup MarketZeroFields \cup MarketDateFields
                                      \cup {"max_supply", "sparkline_7d"}}
  \cup {<<"market_data", k, "usd">> : k \in UsdFields}
  \cup {<<"market_data", "sparkline_7d", "price">>}

PricePath == <<"market_data", "sparkline_7d", "price">>

\* bodies the detail endpoint may answer with
DetailPayloads ==
  {Null, EmptyStr, Num(7), EmptyObj, FullDetail}
  \cup {SetPath(b, p, v) : b \in {EmptyObj, FullDetail}, p \in DetailPaths, v \in Probes}
  \cup {DelPath(FullDetail, p) : p \in DetailPaths}
  \cup {SetPath(b, PricePath, v) : b \in {EmptyObj, FullDetail}, v \in Sparklines}

FullSummary == Obj([k \in SummaryFields |->
  IF k = "id" THEN S_btc
  ELSE IF k = "name" THEN S_Bitcoin
  ELSE IF k = "symbol" THEN S_btc
  ELSE IF k = "image" THEN S_url
  ELSE IF k = "last_updated" THEN S_date
  ELSE IF k \in NullFields THEN Num(1)
  ELSE Num(42)])

OtherSummary == SetPath(SetPath(EmptyObj, <<"id">>, S_Eth), <<"symbol">>, S_Eth)

ListRecords ==
  {FullSummary, EmptyObj}
  \cup {SetPath(b, <<k>>, v) : b \in {EmptyObj, FullSummary}, k \in SummaryFields, v \in Probes}
  \cup {DelPath(FullSummary, <<k>>) : k \in SummaryFields}

RECURSIVE SeqsUpTo(_, _)
SeqsUpTo(S, n) ==
  IF n = 0 THEN {<<>>}
  ELSE LET R == SeqsUpTo(S, n - 1) IN R \cup {Append(r, x) : r \in R, x \in S}

\* bodies the listing endpoint may answer with
ListPayloads ==
  {Null, EmptyStr, EmptyObj, EmptyArr, Arr(<<Null>>), Arr(<<FullSummary, Num(7)>>)}
  \cup {Arr(<<r>> \o rest) : r \in ListRecords,
                             rest \in SeqsUpTo({FullSummary, OtherSummary}, MaxList - 1)}
  \cup {Arr(rest \o <<r>>) : r \in {SetPath(FullSummary, <<"symbol">>, Num(7)), Null},
                             rest \in SeqsUpTo({FullSummary, OtherSummary}, MaxList - 1)}

Choice(c) == Obj([k \in {"message"} |-> Obj([j \in {"content"} |-> c])])
Completion(cs) == Obj([k \in {"choices"} |-> Arr(cs)])

Contents == {Null, EmptyStr, Num(0), Bool(FALSE), Num(7), S_Eth, AI_UNAVAILABLE, EmptyArr}

\* bodies the completion endpoint may answer with
Completions ==
  {Null, EmptyObj, S_Eth, Completion(<<>>), Completion(<<Null>>), Completion(<<EmptyObj>>),
   Completion(<<S_Eth>>), Completion(<<Obj([k \in {"message"} |-> S_Eth])>>),
   Completion(<<Obj([k \in {"message"} |-> EmptyObj])>>),
   Completion(<<Choice(S_btc), Choice(S_Eth)>>), Completion(<<Choice(EmptyStr), Choice(S_Eth)>>)}
  \cup {Completion(<<Choice(c)>>) : c \in Contents}

TokenIds == {S_btc, EmptyStr}

\* ------------------------------------------------------------------------
\* State
\* ------------------------------------------------------------------------
VARIABLES
  pc,         \* where the request is suspended
  op,         \* the operation the controller called
  tokenId,    \* argument of getTokenDetails
  fetch,      \* market-data call: "none", "pending", "resolved", "rejected"
  data,       \* response.data of the market-data call
  token,      \* value of fetchTokenDetails
  aiCalls,    \* invocations of getAiAnalysis in this request
  gen,        \* completion call: "none", "pending", "resolved", "rejected"
  response,   \* response of the completion call
  result,     \* value the operation resolved with
  raised      \* the operation rejected

vars == <<pc, op, tokenId, fetch, data, token, aiCalls, gen, response, result, raised>>

Init ==
  /\ pc = "idle"
  /\ op = "none"
  /\ tokenId = Undefined
  /\ fetch = "none"
  /\ data = Undefined
  /\ token = Undefined
  /\ aiCalls = 0
  /\ gen = "none"
  /\ response = Undefined
  /\ result = Undefined
  /\ raised = FALSE

\* TokenController.getTokens -> getAiAgentTokens, up to the await of axios.get
CallGetAiAgentTokens ==
  /\ pc = "idle"
  /\ pc' = "awaitMarkets"
  /\ op' = "list"
  /\ fetch' = "pending"
  /\ UNCHANGED <<tokenId, data, token, aiCalls, gen, response, result, raised>>

\* fetchAiAgentTokens resumes and getAiAgentTokens returns its value
ListSettled(ok, d) ==
  LET tokens == fetchAiAgentTokens(ok, d) IN
  /\ pc = "awaitMarkets"
  /\ fetch' = IF ok THEN "resolved" ELSE "rejected"
  /\ data' = d
  /\ pc' = "done"
  /\ raised' = (tokens = Thrown)
  /\ result' = IF tokens = Thrown THEN Undefined ELSE tokens
  /\ UNCHANGED <<op, tokenId, token, aiCalls, gen, response>>

MarketsResolve == \E d \in ListPayloads : ListSettled(TRUE, d)
MarketsReject == ListSettled(FALSE, Undefined)

\* TokenController.getTokenDetails -> getTokenDetails, up to the await of axios.get
CallGetTokenDetails ==
  /\ pc = "idle"
  /\ \E id \in TokenIds : tokenId' = id
  /\ pc' = "awaitCoin"
  /\ op' = "detail"
  /\ fetch' = "pending"
  /\ UNCHANGED <<data, token, aiCalls, gen, response, result, raised>>

\* fetchTokenDetails resumes; getTokenDetails runs on to its return or to the
\* await of the completion call inside getAiAnalysis
CoinSettled(ok, d) ==
  LET tok == fetchTokenDetails(ok, d) IN
  /\ pc = "awaitCoin"
  /\ fetch' = IF ok THEN "resolved" ELSE "rejected"
  /\ data' = d
  /\ token' = tok
  /\ IF tokenMissing(tok)
     THEN /\ pc' = "done"
          /\ result' = Null
          /\ UNCHANGED <<aiCalls, gen, raised>>
     ELSE /\ aiCalls' = aiCalls + 1
          /\ IF PromptThrows(tok)
             THEN /\ pc' = "done"
                  /\ raised' = CatchLogThrows(tok)
                  /\ result' = IF CatchLogThrows(tok) THEN Undefined
                               ELSE withInsight(tok, AI_UNAVAILABLE)
                  /\ gen' = gen
             ELSE /\ pc' = "awaitCompletion"
                  /\ gen' = "pending"
                  /\ UNCHANGED <<result, raised>>
  /\ UNCHANGED <<op, tokenId, response>>

CoinResolve == \E d \in DetailPayloads : CoinSettled(TRUE, d)
CoinReject == CoinSettled(FALSE, Undefined)

\* getAiAnalysis resumes and getTokenDetails returns the combined record
CompletionSettled(ok, r) ==
  /\ pc = "awaitCompletion"
  /\ gen' = IF ok THEN "resolved" ELSE "rejected"
  /\ response' = r
  /\ result' = withInsight(token, analysisOf(ok, r))
  /\ pc' = "done"
  /\ UNCHANGED <<op, tokenId, fetch, data, token, aiCalls, raised>>

CompletionResolve == \E r \in Completions : CompletionSettled(TRUE, r)
CompletionReject == CompletionSettled(FALSE, Undefined)

\* the controller hands the settled promise to the framework; the next request
\* starts from a fresh invocation
Respond ==
  /\ pc = "done"
  /\ pc' = "idle"
  /\ op' = "none"
  /\ tokenId' = Undefined
  /\ fetch' = "none"
  /\ data' = Undefined
  /\ token' = Undefined
  /\ aiCalls' = 0
  /\ gen' = "none"
  /\ response' = Undefined
  /\ result' = Undefined
  /\ raised' = FALSE

Next ==
  \/ CallGetAiAgentTokens
  \/ MarketsResolve
  \/ MarketsReject
  \/ CallGetTokenDetails
  \/ CoinResolve
  \/ CoinReject
  \/ CompletionResolve
  \/ CompletionReject
  \/ Respond

Spec == Init /\ [][Next]_vars

\* ------------------------------------------------------------------------
\* Properties
\* ------------------------------------------------------------------------
DetailDone == op = "detail" /\ pc = "done"
ListDone == op = "list" /\ pc = "done"

RECURSIVE AtPath(_, _)
\* the value under path p of a payload, Undefined when any step is absent
AtPath(o, p) ==
  IF p = <<>> THEN o
  ELSE IF o.t = "object" /\ Head(p) \in DOMAIN o.f THEN AtPath(o.f[Head(p)], Tail(p))
  ELSE Undefined

LenOf(v) == IF v.t = "array" THEN Len(v.a) ELSE IF v.t = "string" THEN Len(v.s) ELSE 0

HasField(o, k) == o.t = "object" /\ k \in DOMAIN o.f /\ o.f[k] # Undefined

\* C1: getTokenDetails never rejects, and resolves with null or with a record
\* whose ai_insight is present and non-empty (truthy).
C1_NeverRaises ==
  DetailDone =>
    /\ ~raised
    /\ \/ result = Null
       \/ (HasField(result, "ai_insight") /\ ~Falsy(result.f["ai_insight"]))

\* C2: within one detail request getAiAnalysis is invoked at most once, only
\* once the market-data call has resolved and produced the normalized record;
\* when the market-data call rejects the operation returns null without ever
\* invoking the generator or the completion call.
C2_GeneratorAfterFetch ==
  op = "detail" =>
    /\ aiCalls <= 1
    /\ (fetch = "pending" => aiCalls = 0 /\ gen = "none")
    /\ (aiCalls = 1 => fetch = "resolved" /\ token.t = "object"
                       /\ token = formatTokenDetails(data))
    /\ (gen # "none" => aiCalls = 1)
    /\ (fetch = "rejected" => pc = "done" /\ result = Null /\ aiCalls = 0 /\ gen = "none")

C2_Witness == DetailDone /\ aiCalls = 1 /\ gen = "resolved" /\ fetch = "resolved"

\* C3: after a successful market-data call, a completion call that rejects or
\* whose response makes choices[0].message.content unreadable yields ai_insight
\* "AI analysis unavailable."; a falsy content yields "No AI insight
\* available."; any other content is returned unchanged.
C3_InsightText ==
  (DetailDone /\ gen \in {"resolved", "rejected"}) =>
    LET c == readContent(response) IN
    /\ fetch = "resolved"
    /\ HasField(result, "ai_insight")
    /\ (gen = "rejected" \/ c = Thrown) => result.f["ai_insight"] = AI_UNAVAILABLE
    /\ (gen = "resolved" /\ c # Thrown /\ Falsy(c)) => result.f["ai_insight"] = NO_INSIGHT
    /\ (gen = "resolved" /\ c # Thrown /\ ~Falsy(c)) => result.f["ai_insight"] = c

C3_Witness ==
  /\ DetailDone /\ gen = "resolved"
  /\ readContent(response) = EmptyStr
  /\ HasField(result, "ai_insight") /\ result.f["ai_insight"] = NO_INSIGHT

\* an element the list normalisation can process: not null, symbol absent,
\* null or a string
Normalizable(rec) ==
  /\ ~IsNullish(rec)
  /\ AtPath(rec, <<"symbol">>).t \in {"undefined", "null", "string"}

Mappable(d) == d.t = "array" /\ \A i \in DOMAIN d.a : Normalizable(d.a[i])

\* C4: getAiAgentTokens never rejects; a failed listing call, a body that is
\* not a sequence, or an element that cannot be normalized yields [].
C4_ListNeverRaises ==
  ListDone =>
    /\ ~raised
    /\ result.t = "array"
    /\ (fetch = "rejected" \/ ~Mappable(data)) => result = EmptyArr

C4_Witness ==
  /\ ListDone /\ fetch = "resolved" /\ ~raised
  /\ data.t = "array" /\ Len(data.a) >= 1 /\ ~Mappable(data)
  /\ result = EmptyArr

\* C5 (as stated): every field of the normalized TokenSummary and TokenDetail,
\* id and name included, is present with a defined value whatever the upstream
\* record lacks.
C5_AllFieldsDefined ==
  /\ (op = "detail" /\ token.t = "object") =>
       /\ \A k \in DetailFields : HasField(token, k)
       /\ \A k \in {"thumb", "small", "large"} : HasField(token.f["image"], k)
  /\ (ListDone /\ result.t = "array") =>
       \A i \in DOMAIN result.a : \A k \in SummaryFields : HasField(result.a[i], k)

\* C5 (amended): every field other than id and name is present with a defined
\* value; id and name are copied from the upstream record and are undefined
\* exactly when the upstream record lacks them.
C5_DefaultedFieldsDefined ==
  /\ (op = "detail" /\ token.t = "object") =>
       /\ DOMAIN token.f = DetailFields
       /\ \A k \in DetailFields \ {"id", "name"} : HasField(token, k)
       /\ \A k \in {"thumb", "small", "large"} : HasField(token.f["image"], k)
       /\ \A k \in {"id", "name"} : token.f[k] = AtPath(data, <<k>>)
  /\ (ListDone /\ result.t = "array") =>
       \A i \in DOMAIN result.a :
         /\ DOMAIN result.a[i].f = SummaryFields
         /\ \A k \in SummaryFields \ {"id", "name"} : HasField(result.a[i], k)
         /\ \A k \in {"id", "name"} : result.a[i].f[k] = AtPath(data.a[i], <<k>>)

C5_Witness ==
  /\ op = "detail" /\ token.t = "object"
  /\ data.t = "object" /\ DOMAIN data.f = {"id"}
  /\ token.f["name"] = Undefined /\ token.f["market_cap"] = Num(0)

\* C6: in every normalized TokenSummary a numeric field is 0 when absent
\* upstream and is never null or undefined, market_cap_rank and max_supply are
\* null when absent upstream, and a field present with a non-zero (truthy)
\* value is passed through unchanged.
C6_SummaryDefaults ==
  (ListDone /\ result.t = "array" /\ result # EmptyArr) =>
    /\ Len(result.a) = Len(data.a)
    /\ \A i \in DOMAIN result.a : \A k \in ZeroFields \cup NullFields :
         LET u == AtPath(data.a[i], <<k>>)
             o == result.a[i].f[k]
         IN /\ (k \in ZeroFields /\ u = Undefined) => o = Num(0)
            /\ (k \in ZeroFields) => ~IsNullish(o)
            /\ (k \in NullFields /\ u = Undefined) => o = Null
            /\ ~Falsy(u) => o = u

C6_Witness ==
  /\ ListDone /\ result.t = "array" /\ Len(result.a) >= 1
  /\ "ath" \notin DOMAIN data.a[1].f /\ "max_supply" \notin DOMAIN data.a[1].f
  /\ "atl" \in DOMAIN data.a[1].f /\ result.a[1].f["atl"] = Num(7)

\* d is the upper-case form of the character c
IsUpperOf(c, d) ==
  \/ \E i \in DOMAIN LowerCase : c = LowerCase[i] /\ d = UpperCase[i]
  \/ (c = d /\ \A i \in DOMAIN LowerCase : c # LowerCase[i])

IsUpperCased(u, o) ==
  /\ o.t = "string" /\ Len(o.s) = Len(u.s)
  /\ \A i \in DOMAIN u.s : IsUpperOf(u.s[i], o.s[i])

\* C7 (as stated): the symbol of the record the detail operation returns is
\* the upper-cased upstream symbol, and "N/A" if the upstream symbol is absent.
C7_SymbolUpperCased ==
  (DetailDone /\ result.t = "object") =>
    LET u == AtPath(data, <<"symbol">>) IN
    /\ u = Undefined => result.f["symbol"] = NA
    /\ u.t = "string" => IsUpperCased(u, result.f["symbol"])

\* C7 (amended): the symbol is the upper-cased upstream symbol when that is a
\* non-empty string, and "N/A" when it is absent, null or the empty string.
C7_SymbolUpperCasedOrNA ==
  (DetailDone /\ result.t = "object") =>
    LET u == AtPath(data, <<"symbol">>) IN
    /\ (IsNullish(u) \/ u = EmptyStr) => result.f["symbol"] = NA
    /\ (u.t = "string" /\ u # EmptyStr) => IsUpperCased(u, result.f["symbol"])
    /\ u.t \in {"undefined", "null", "string"}

C7_Witness ==
  /\ DetailDone /\ result.t = "object"
  /\ AtPath(data, <<"symbol">>) = S_Eth
  /\ result.f["symbol"] = Str(<<"E", "T", "H", "2">>)

\* C8: chart_data has at most 24 entries; for an upstream sparkline of n
\* points it is the last min(n, 24) points in their order; it is empty when the
\* sparkline or any object on the path to it is absent.
C8_ChartData ==
  (op = "detail" /\ token.t = "object") =>
    LET p == AtPath(data, PricePath)
        cd == token.f["chart_data"]
        n == LenOf(p)
        m == IF n <= SliceCount THEN n ELSE SliceCount
    IN /\ LenOf(cd) <= SliceCount
       /\ p = Undefined => cd = EmptyArr
       /\ p.t = "array" =>
            /\ cd.t = "array" /\ Len(cd.a) = m
            /\ \A i \in 1..m : cd.a[i] = p.a[n - m + i]

C8_Witness ==
  /\ op = "detail" /\ token.t = "object"
  /\ AtPath(data, PricePath).t = "array"
  /\ Len(AtPath(data, PricePath).a) > SliceCount
  /\ Len(token.f["chart_data"].a) = SliceCount

C10_PromptFieldsDefined ==
  (op = "detail" /\ aiCalls >= 1) =>
    /\ token = formatTokenDetails(data)
    /\ \A k \in PromptFields \cup PromptJsonFields : HasField(token, k)

====
